---------------------------- MODULE Spec2Model ----------------------------
(***************************************************************************)
(* EngineDataAnalysis-streamlit.py: the time-windowed join and payload     *)
(* aggregation pipeline of the excavator dashboard.                        *)
(*                                                                         *)
(* The script is re-executed from top to bottom by Streamlit on every      *)
(* widget interaction.  One action of the model is one such execution:     *)
(* the widget values are fixed by the interaction and the whole script     *)
(* (load, filters, joins, aggregation, snapshot, KPIs, charts) runs.       *)
(*                                                                         *)
(* Tables (DataFrames) are sequences of records, one record per row, in    *)
(* row order; the field names are the column names.  Instants are whole    *)
(* seconds (naive wall-clock time).                                        *)
(***************************************************************************)
EXTENDS Integers, Sequences, FiniteSets, TLC

VARIABLES
    device_csv,          \* df_5min.csv as parsed (rows in file order)
    payload_csv,         \* payload_df.csv
    channel_csv,         \* channel_summary_tab.csv
    cache,               \* the entry @st.cache_data keeps for load_data()
    start_datetime,      \* line 27
    end_datetime,        \* line 28
    selected_channel,    \* line 43
    df_filtered,         \* line 30 (and the column added at line 184)
    filtered_sql_df,     \* line 37
    channel_options,     \* the options list offered by the selectbox, line 43
    merged_df,           \* line 47
    agg_payload_5min,    \* line 62
    filtered_channel_df, \* line 45, rebound at line 70
    snapshot_csv,        \* filtered_channel_df.csv, line 78
    final_merged_df,     \* line 81
    kpi,                 \* the three st.metric values, lines 94-96
    plotted,             \* the charts the run handed to st.plotly_chart / st.pyplot
    messages             \* the texts the run showed with st.write / st.warning

vars == << device_csv, payload_csv, channel_csv, cache, start_datetime,
           end_datetime, selected_channel, df_filtered, filtered_sql_df,
           channel_options, merged_df, agg_payload_5min, filtered_channel_df,
           snapshot_csv, final_merged_df, kpi, plotted, messages >>

---------------------------------------------------------------------------
(* Values *)

\* pandas' missing timestamp.  Stored as an integer below every instant; every
\* ordering comparison with it is False (see InWindow).
NaT == -1000000

\* pandas' missing number (an empty cell of a numeric column).
NaN == -999

\* The width of a payload bucket, '5T' = five minutes, in seconds.
FiveMinutes == 300

\* datetime.date: the length of a calendar day in seconds.
DaySeconds == 86400

\* An instant of day 0 from its clock reading.
T(h, m, s) == h * 3600 + m * 60 + s

\* time(0, 0) and time(23, 59): the default clock readings of the two
\* time_input widgets.
DefaultStartTime == T(0, 0, 0)
DefaultEndTime == T(23, 59, 0)

\* The placeholder option of the selectbox when no channel code is offered.
NoneOption == "None"

\* Python's order on the strings that occur as channel codes or options.
CodeRank == [c \in {"A", "B", "None"} |->
                CASE c = "A" -> 1 [] c = "B" -> 2 [] c = "None" -> 3]

CodeLess(a, b) == CodeRank[a] < CodeRank[b]

---------------------------------------------------------------------------
(* Bounds of the model *)

\* The most rows a source table holds in the joint input family.
MaxRows == 2

\* The most payload events in the aggregator's input family.
MaxEvents == 2

\* The most rows of the device and channel tables in the filter input family.
MaxFilterRows == 2

---------------------------------------------------------------------------
(* Helpers on sequences *)

Range(s) == {s[i] : i \in 1..Len(s)}

RECURSIVE Flatten(_)
Flatten(ss) == IF ss = <<>> THEN <<>> ELSE Head(ss) \o Flatten(Tail(ss))

RECURSIVE SumSeq(_)
SumSeq(s) == IF s = <<>> THEN 0 ELSE Head(s) + SumSeq(Tail(s))

Column(table, col) == [i \in 1..Len(table) |-> table[i][col]]

DropNa(s) == SelectSeq(s, LAMBDA v : v # NaN)

\* All sequences over S of length lo..hi.
SeqsOf(S, lo, hi) == UNION {[1..n -> S] : n \in lo..hi}

\* The elements of a finite set of integers in ascending order.
RECURSIVE SortedSeq(_)
SortedSeq(S) ==
    IF S = {} THEN <<>>
    ELSE LET m == CHOOSE x \in S : \A y \in S : x <= y
         IN  <<m>> \o SortedSeq(S \ {m})

---------------------------------------------------------------------------
(* Loader: lines 12-18 *)

\* load_data(): read_csv parses 'Device Date/Time'; tz_localize(None) discards
\* the offset annotation of the column and keeps every wall-clock reading.
LoadData(csv) == csv.rows

\* What load_data() returns on a later run: st.cache_data hands out a copy of
\* the stored frame.
CachedLoad(stored) == stored

---------------------------------------------------------------------------
(* Time-window filter: lines 22-30 and 37-40 *)

\* Series.min() / Series.max() skip NaT; .date() is the calendar day.
DateOf(t) == t \div DaySeconds
MinTime(df) == LET ts == Range(Column(df, "device_date_time")) \ {NaT}
               IN  CHOOSE x \in ts : \A y \in ts : x <= y
MaxTime(df) == LET ts == Range(Column(df, "device_date_time")) \ {NaT}
               IN  CHOOSE x \in ts : \A y \in ts : x >= y

\* datetime.combine(date, time)
Combine(date, time) == date * DaySeconds + time

DefaultStart(df) == Combine(DateOf(MinTime(df)), DefaultStartTime)
DefaultEnd(df) == Combine(DateOf(MaxTime(df)), DefaultEndTime)

\* The window with its end excluded.
InWindowOpenEnd(t, s, e) == t # NaT /\ t >= s /\ t < e

\* (col >= start) & (col <= end): a comparison with NaT is False.
InWindow(t, s, e) == t # NaT /\ t >= s /\ t <= e

\* Boolean-mask indexing: the rows whose mask is True, in their order.
TimeFilter(table, col, s, e) ==
    SelectSeq(table, LAMBDA r : InWindow(r[col], s, e))

---------------------------------------------------------------------------
(* Channel selector: lines 42-45 *)

\* Series.unique(): the distinct values in order of first appearance.
RECURSIVE Unique(_)
Unique(s) ==
    IF s = <<>> THEN <<>>
    ELSE LET rest == Unique(SubSeq(s, 1, Len(s) - 1))
             last == s[Len(s)]
         IN  IF last \in Range(rest) THEN rest ELSE Append(rest, last)

\* sorted(): insertion into an ascending list.
RECURSIVE InsertSorted(_, _)
InsertSorted(x, s) ==
    IF s = <<>> THEN <<x>>
    ELSE IF CodeLess(x, Head(s)) THEN <<x>> \o s
    ELSE <<Head(s)>> \o InsertSorted(x, Tail(s))

\* The codes left in order of first appearance.
Unsorted(s) == s

RECURSIVE Sorted(_)
Sorted(s) == IF s = <<>> THEN <<>> ELSE InsertSorted(Head(s), Sorted(Tail(s)))

\* The options of the selectbox.
ChannelOptions(sql_df) ==
    LET channel_codes == Unique(Column(sql_df, "channel_code"))
    IN  IF Len(channel_codes) > 0 THEN Sorted(channel_codes) ELSE <<NoneOption>>

\* filtered_sql_df[filtered_sql_df['channel_code'] == selected_channel]
ChannelSelect(sql_df, code) ==
    SelectSeq(sql_df, LAMBDA r : r.channel_code = code)

---------------------------------------------------------------------------
(* Payload aggregator: lines 56-67 *)

\* Truncation toward zero instead of toward minus infinity.
Floor5TowardZero(t) ==
    IF t = NaT THEN NaT
    ELSE IF t >= 0 THEN (t \div FiveMinutes) * FiveMinutes
    ELSE 0 - (((0 - t) \div FiveMinutes) * FiveMinutes)

\* Series.dt.floor('5T'): down to a multiple of five minutes; NaT stays NaT.
Floor5(t) == IF t = NaT THEN NaT ELSE (t \div FiveMinutes) * FiveMinutes

\* One group of the groupby: 'sum' and 'count' and 'mean' all skip NaN; the
\* mean is sum / count, kept as an exact fraction (count 0 gives 0/0, NaN).
Bucket(payload, key) ==
    LET group == SelectSeq(payload, LAMBDA ev : Floor5(ev.cycle_start_time) = key)
        vals  == DropNa(Column(group, "avg_payload"))
    IN  [cycle_start_time_5min |-> key,
         sum_payload   |-> SumSeq(vals),
         count_payload |-> Len(vals),
         avg_payload   |-> [num |-> SumSeq(vals), den |-> Len(vals)]]

\* groupby(...).agg(...).reset_index(): one row per distinct key, keys in
\* ascending order; groupby drops the rows whose key is NaT.
AggPayload5Min(payload) ==
    LET keys == {Floor5(payload[i].cycle_start_time) : i \in 1..Len(payload)} \ {NaT}
        order == SortedSeq(keys)
    IN  [i \in 1..Len(order) |-> Bucket(payload, order[i])]

---------------------------------------------------------------------------
(* Joiner: lines 47-53, 69-76, 80-87 *)

\* Matching by five-minute window instead of by exact equality.
KeyMatchWindowed(a, b) == Floor5(a) = Floor5(b)

\* pd.merge compares the key columns by value; two missing keys match.
KeyMatch(a, b) == a = b

\* The rows of `right` that match a left row, in the order of `right`.
Matches(l, right, lkey, rkey) ==
    SelectSeq(right, LAMBDA r : KeyMatch(l[lkey], r[rkey]))

\* merged_df: inner join of df_filtered and filtered_channel_df (as bound at
\* line 45) on 'Device Date/Time' = cycle_start_time.  Left order is kept, each
\* left row followed by its matches; the columns are those of both frames.
MergeDeviceChannel(dev, chan) ==
    Flatten([i \in 1..Len(dev) |->
        LET ms == Matches(dev[i], chan, "device_date_time", "cycle_start_time")
        IN  [j \in 1..Len(ms) |-> dev[i] @@ ms[j]]])


\* The payload columns of a left-join row without a match.
NullBucket ==
    [cycle_start_time_5min |-> NaT, sum_payload |-> NaN, count_payload |-> NaN,
     avg_payload |-> [num |-> 0, den |-> 0]]

\* The bucket join as an inner join: channel rows without a bucket are lost.
AttachBucketInner(chan, agg) ==
    Flatten([i \in 1..Len(chan) |->
        LET ms == SelectSeq(agg, LAMBDA b :
                      chan[i].cycle_start_time = b.cycle_start_time_5min)
        IN  [j \in 1..Len(ms) |-> chan[i] @@ ms[j]]])

\* The bucket join keyed on the floored cycle_start_time.
AttachBucketFloored(chan, agg) ==
    Flatten([i \in 1..Len(chan) |->
        LET ms == SelectSeq(agg, LAMBDA b :
                      Floor5(chan[i].cycle_start_time) = b.cycle_start_time_5min)
        IN  IF ms = <<>> THEN << chan[i] @@ NullBucket >>
            ELSE [j \in 1..Len(ms) |-> chan[i] @@ ms[j]]])

\* filtered_channel_df rebound: left join with agg_payload_5min on
\* cycle_start_time = cycle_start_time_5min.
AttachBucket(chan, agg) ==
    Flatten([i \in 1..Len(chan) |->
        LET ms == Matches(chan[i], agg, "cycle_start_time", "cycle_start_time_5min")
        IN  IF ms = <<>> THEN << chan[i] @@ NullBucket >>
            ELSE [j \in 1..Len(ms) |-> chan[i] @@ ms[j]]])

\* The columns two frames share get the suffixes _x (left) and _y (right).
FinalRow(m, c) ==
    [device_date_time      |-> m.device_date_time,
     fuel_used_delta       |-> m.fuel_used_delta,
     estimated_co2         |-> m.estimated_co2,
     engine_load           |-> m.engine_load,
     cycle_start_time_x    |-> m.cycle_start_time,
     channel_code_x        |-> m.channel_code,
     damage_x              |-> m.damage,
     life_x                |-> m.life,
     cycle_start_time_y    |-> c.cycle_start_time,
     channel_code_y        |-> c.channel_code,
     damage_y              |-> c.damage,
     life_y                |-> c.life,
     cycle_start_time_5min |-> c.cycle_start_time_5min,
     sum_payload           |-> c.sum_payload,
     count_payload         |-> c.count_payload,
     avg_payload           |-> c.avg_payload]

\* The final join keyed on the right frame's cycle_start_time.
MergeFinalOnCycleStart(merged, chan_payload) ==
    Flatten([i \in 1..Len(merged) |->
        LET ms == SelectSeq(chan_payload, LAMBDA c :
                      merged[i].device_date_time = c.cycle_start_time)
        IN  [j \in 1..Len(ms) |-> FinalRow(merged[i], ms[j])]])

\* final_merged_df: inner join of merged_df and the rebound filtered_channel_df
\* on 'Device Date/Time' = cycle_start_time_5min.
MergeFinal(merged, chan_payload) ==
    Flatten([i \in 1..Len(merged) |->
        LET ms == Matches(merged[i], chan_payload,
                          "device_date_time", "cycle_start_time_5min")
        IN  [j \in 1..Len(ms) |-> FinalRow(merged[i], ms[j])]])

---------------------------------------------------------------------------
(* Metrics and charts: lines 92-124, 181-190, 196-251 *)

\* Series.sum() and Series.mean() skip NaN; the mean of no value is NaN (0/0).
Kpis(dev) ==
    LET loads == DropNa(Column(dev, "engine_load"))
    IN  [total_fuel  |-> SumSeq(DropNa(Column(dev, "fuel_used_delta"))),
         total_co2   |-> SumSeq(DropNa(Column(dev, "estimated_co2"))),
         engine_load |-> [num |-> SumSeq(loads), den |-> Len(loads)]]

\* df_filtered['Cumulative Fuel'] = df_filtered['FUEL USED DELTA'].cumsum(),
\* done only when df_filtered is not empty.
WithCumulativeFuel(dev) ==
    [i \in 1..Len(dev) |->
        dev[i] @@ [cumulative_fuel |->
                      SumSeq(Column(SubSeq(dev, 1, i), "fuel_used_delta"))]]

\* The stored frame shared with the run: the filtered frame, with its new
\* column, takes its place.
StoredShared(stored, dev_after) == dev_after

\* The stored frame after a run.  load_data() hands the run its own copy and
\* df_filtered is a new frame, so the run's column assignment never reaches
\* the stored frame.
StoredAfterRun(stored, dev_after) == stored

\* The charts drawn without any test of their table.
AlwaysPlotted ==
    {"fuel_rate_over_time", "engine_load_vs_fuel_rate", "damage_vs_fuel_rate",
     "life_vs_fuel_rate", "life_distribution", "intake_temp_heatmap"}

\* The charts of the "Payload vs Fuel Metrics" section.
PayloadCharts ==
    {"sum_payload_vs_fuel_rate", "count_payload_vs_fuel_rate",
     "avg_payload_vs_fuel_rate", "sum_payload_vs_fuel_used",
     "count_payload_vs_fuel_used", "avg_payload_vs_fuel_used",
     "passes_distribution"}

NoDataText == "No data available for the selected time range."
PayloadWarning == "Payload or fuel data is missing or could not be merged correctly."

\* 'FUEL RATE' in final_merged_df.columns and 'FUEL USED DELTA' in ...: the
\* device columns are columns of final_merged_df whatever its rows.
FuelColumnsPresent == TRUE

Plotted(dev, chan_payload) ==
    AlwaysPlotted
        \cup (IF dev # <<>> THEN {"cumulative_fuel"} ELSE {})
        \cup (IF chan_payload # <<>> /\ FuelColumnsPresent THEN PayloadCharts ELSE {})

Messages(dev, chan_payload) ==
    (IF dev # <<>> THEN {} ELSE {NoDataText})
        \cup (IF chan_payload # <<>> /\ FuelColumnsPresent THEN {} ELSE {PayloadWarning})

\* The frame each chart is drawn from, given the frames of the run.
ChartTable(chart, dev, merged, chan_payload, final) ==
    CASE chart \in {"fuel_rate_over_time", "engine_load_vs_fuel_rate",
                    "intake_temp_heatmap", "cumulative_fuel"} -> dev
      [] chart \in {"damage_vs_fuel_rate", "life_vs_fuel_rate"} -> merged
      [] chart = "life_distribution" -> chan_payload
      [] chart \in PayloadCharts -> final

---------------------------------------------------------------------------
(* One execution of the script *)

\* The options the selectbox offers under a window: lines 37-43.
OptionsFor(chan_csv, s, e) ==
    ChannelOptions(TimeFilter(chan_csv, "cycle_start_time", s, e))

\* The whole script with the widget values s, e and pick, top to bottom.
Script(df, pay_csv, chan_csv, s, e, pick) ==
    LET dev      == TimeFilter(df, "device_date_time", s, e)
        sql_df   == TimeFilter(chan_csv, "cycle_start_time", s, e)
        options  == ChannelOptions(sql_df)
        chan     == ChannelSelect(sql_df, pick)
        merged   == MergeDeviceChannel(dev, chan)
        agg      == AggPayload5Min(pay_csv)
        chan_pay == AttachBucket(chan, agg)
        final    == MergeFinal(merged, chan_pay)
    IN  [df_filtered         |-> IF dev # <<>> THEN WithCumulativeFuel(dev) ELSE dev,
         filtered_sql_df     |-> sql_df,
         channel_options     |-> options,
         merged_df           |-> merged,
         agg_payload_5min    |-> agg,
         filtered_channel_df |-> chan_pay,
         snapshot_csv        |-> chan_pay,
         final_merged_df     |-> final,
         kpi                 |-> Kpis(dev),
         plotted             |-> Plotted(dev, chan_pay),
         messages            |-> Messages(dev, chan_pay)]

\* The state a run leaves behind.
Ran(stored, s, e, pick) ==
    \E out \in {Script(CachedLoad(stored), payload_csv, channel_csv, s, e, pick)} :
        /\ start_datetime' = s
        /\ end_datetime' = e
        /\ selected_channel' = pick
        /\ df_filtered' = out.df_filtered
        /\ filtered_sql_df' = out.filtered_sql_df
        /\ channel_options' = out.channel_options
        /\ merged_df' = out.merged_df
        /\ agg_payload_5min' = out.agg_payload_5min
        /\ filtered_channel_df' = out.filtered_channel_df
        /\ snapshot_csv' = out.snapshot_csv
        /\ final_merged_df' = out.final_merged_df
        /\ kpi' = out.kpi
        /\ plotted' = out.plotted
        /\ messages' = out.messages
        /\ cache' = StoredAfterRun(stored, out.df_filtered)
        /\ UNCHANGED << device_csv, payload_csv, channel_csv >>

\* The instants the user sets the two date/time inputs to.
Instants == {T(12, 0, 0), T(12, 5, 0)}

\* The user changes a date or time input.  The selectbox is rebuilt from the
\* options of the new window and shows one of them.
SetTimeWindow ==
    \E s \in Instants, e \in Instants :
        /\ <<s, e>> # <<start_datetime, end_datetime>>
        /\ \E pick \in Range(OptionsFor(channel_csv, s, e)) :
               Ran(cache, s, e, pick)

\* The user picks another of the offered channel codes.
SelectChannel ==
    \E pick \in Range(channel_options) :
        /\ pick # selected_channel
        /\ Ran(cache, start_datetime, end_datetime, pick)

\* A run with every widget as it is (any other interaction, a page reload).
Rerun ==
    /\ selected_channel \in Range(channel_options)
    /\ Ran(cache, start_datetime, end_datetime, selected_channel)

Next == SetTimeWindow \/ SelectChannel \/ Rerun

---------------------------------------------------------------------------
(* Source tables *)

DeviceRow(t, fuel, co2, load) ==
    [device_date_time |-> t, fuel_used_delta |-> fuel,
     estimated_co2 |-> co2, engine_load |-> load]

ChannelRow(t, code) ==
    [cycle_start_time |-> t, channel_code |-> code,
     damage |-> CodeRank[code], life |-> 10 * CodeRank[code]]

PayloadRow(t, v) == [cycle_start_time |-> t, avg_payload |-> v]

\* The first run of a session: load_data() reads and stores the device table,
\* the date inputs show the first and last day of the data, the selectbox its
\* first option.
FirstRun(dev_csv, pay_csv, chan_csv) ==
    LET df == LoadData(dev_csv)
        s  == DefaultStart(df)
        e  == DefaultEnd(df)
    IN  /\ device_csv = dev_csv
        /\ payload_csv = pay_csv
        /\ channel_csv = chan_csv
        /\ cache = df
        /\ start_datetime = s
        /\ end_datetime = e
        /\ \E out \in {Script(df, pay_csv, chan_csv, s, e,
                                OptionsFor(chan_csv, s, e)[1])} :
                /\ selected_channel = out.channel_options[1]
                /\ df_filtered = out.df_filtered
                /\ filtered_sql_df = out.filtered_sql_df
                /\ channel_options = out.channel_options
                /\ merged_df = out.merged_df
                /\ agg_payload_5min = out.agg_payload_5min
                /\ filtered_channel_df = out.filtered_channel_df
                /\ snapshot_csv = out.snapshot_csv
                /\ final_merged_df = out.final_merged_df
                /\ kpi = out.kpi
                /\ plotted = out.plotted
                /\ messages = out.messages

\* The device frame needs one reading with a timestamp: the date inputs take
\* their defaults from its first and last day.
HasDate(rows) == \E i \in 1..Len(rows) : rows[i].device_date_time # NaT

(* Joint family: the three tables vary together, with timestamps on and off
   a bucket boundary, so that every join has rows that match and rows that
   do not. *)
JointTimes == {T(12, 0, 0), T(12, 4, 59), T(12, 5, 0)}
JointDeviceRows == {DeviceRow(t, 2, 5, 40) : t \in JointTimes}
JointChannelRows ==
    {ChannelRow(t, "A") : t \in JointTimes} \cup {ChannelRow(T(12, 0, 0), "B")}
JointPayloadRows == {PayloadRow(t, 7) : t \in {T(12, 4, 59), T(12, 5, 0)}}

Init ==
    \E d \in SeqsOf(JointDeviceRows, 1, MaxRows),
       c \in SeqsOf(JointChannelRows, 0, MaxRows),
       p \in SeqsOf(JointPayloadRows, 0, MaxRows) :
        FirstRun([tz |-> "naive", rows |-> d], p, c)

Spec == Init /\ [][Next]_vars

(* Filter family: the device and channel tables vary, with missing
   timestamps, missing engine loads and both channel codes; the payload
   table is fixed. *)
FilterTimes == {T(12, 0, 0), T(12, 5, 0), NaT}
FilterDeviceRows ==
    {DeviceRow(t, 2, 5, 40) : t \in FilterTimes}
        \cup {DeviceRow(t, 3, 8, NaN) : t \in FilterTimes}
FilterChannelRows == {ChannelRow(t, c) : t \in FilterTimes, c \in {"A", "B"}}
FilterPayload == << PayloadRow(T(12, 1, 0), 7), PayloadRow(T(12, 2, 0), 9) >>

InitFilter ==
    \E d \in {x \in SeqsOf(FilterDeviceRows, 1, MaxFilterRows) : HasDate(x)},
       c \in SeqsOf(FilterChannelRows, 0, MaxFilterRows) :
        FirstRun([tz |-> "naive", rows |-> d], FilterPayload, c)

SpecFilter == InitFilter /\ [][Next]_vars

(* Aggregator family: the payload events vary, before and after the epoch,
   with missing timestamps and missing readings; the device table spans two
   days and comes with or without a UTC offset; the channel table is fixed. *)
EventTimes == {T(0, 0, 0) - 1, T(12, 0, 0), T(12, 4, 59), T(12, 5, 0), NaT}
EventValues == {7, 9, NaN}
EventRows == {PayloadRow(t, v) : t \in EventTimes, v \in EventValues}
AggDevice ==
    << DeviceRow(T(12, 0, 0), 2, 5, 40), DeviceRow(T(12, 5, 0), 3, 8, NaN),
       DeviceRow(T(36, 0, 0), 4, 9, 60) >>
AggChannel ==
    << ChannelRow(T(12, 0, 0), "A"), ChannelRow(T(12, 5, 0), "B"),
       ChannelRow(T(12, 5, 0), "A") >>

InitAgg ==
    \E p \in SeqsOf(EventRows, 0, MaxEvents), tz \in {"naive", "+10:00"} :
        FirstRun([tz |-> tz, rows |-> AggDevice], p, AggChannel)

SpecAgg == InitAgg /\ [][Next]_vars

---------------------------------------------------------------------------
(* Properties *)

\* The source columns of a row, without the columns a join or the run added.
DeviceCols(r) ==
    [device_date_time |-> r.device_date_time, fuel_used_delta |-> r.fuel_used_delta,
     estimated_co2 |-> r.estimated_co2, engine_load |-> r.engine_load]

ChannelCols(r) ==
    [cycle_start_time |-> r.cycle_start_time, channel_code |-> r.channel_code,
     damage |-> r.damage, life |-> r.life]

BucketCols(r) ==
    [cycle_start_time_5min |-> r.cycle_start_time_5min,
     sum_payload |-> r.sum_payload, count_payload |-> r.count_payload,
     avg_payload |-> r.avg_payload]

\* The positions of the rows of a table whose timestamp lies in [s, e].
RowsInWindow(table, col, s, e) ==
    {i \in 1..Len(table) : table[i][col] # NaT /\ s <= table[i][col] /\ table[i][col] <= e}

\* `out` is `table` restricted to the positions `keep`, in the order of `table`.
IsRestriction(out, table, keep) ==
    LET order == SortedSeq(keep)
    IN  /\ Len(out) = Len(order)
        /\ \A k \in 1..Len(order) : out[k] = table[order[k]]

\* C5: for a window [s, e] with s <= e the time-filtered device table and the
\* time-filtered channel table hold exactly the source rows with
\* s <= timestamp <= e, both bounds included, in their original order.
C5_TimeWindowInclusive ==
    start_datetime <= end_datetime =>
        /\ IsRestriction([k \in 1..Len(df_filtered) |-> DeviceCols(df_filtered[k])],
                         device_csv.rows,
                         RowsInWindow(device_csv.rows, "device_date_time",
                                      start_datetime, end_datetime))
        /\ IsRestriction(filtered_sql_df, channel_csv,
                         RowsInWindow(channel_csv, "cycle_start_time",
                                      start_datetime, end_datetime))

\* C5 witness: a one-instant window that keeps a reading and a cycle row at
\* exactly that instant and leaves other rows of both tables out.
C5_Witness ==
    /\ start_datetime = end_datetime
    /\ df_filtered # <<>>
    /\ Len(df_filtered) < Len(device_csv.rows)
    /\ filtered_sql_df # <<>>
    /\ Len(filtered_sql_df) < Len(channel_csv)

\* The channel codes of the channel rows inside the current window.
CodesInWindow ==
    {channel_csv[i].channel_code :
        i \in RowsInWindow(channel_csv, "cycle_start_time",
                           start_datetime, end_datetime)}

\* C7: the options offered are the distinct channel codes of the window in
\* ascending order (the placeholder alone when the window has no channel
\* row); the rows selected are exactly the window's rows with the selected
\* code; a code absent from the window, the placeholder included, selects
\* no row.
C7_ChannelSelection ==
    /\ CodesInWindow # {} =>
          /\ Range(channel_options) = CodesInWindow
          /\ Len(channel_options) = Cardinality(CodesInWindow)
          /\ \A i, j \in 1..Len(channel_options) :
                i < j => CodeLess(channel_options[i], channel_options[j])
    /\ CodesInWindow = {} => channel_options = << NoneOption >>
    /\ selected_channel \in Range(channel_options)
    /\ IsRestriction([k \in 1..Len(filtered_channel_df) |->
                         ChannelCols(filtered_channel_df[k])],
                     channel_csv,
                     {i \in RowsInWindow(channel_csv, "cycle_start_time",
                                         start_datetime, end_datetime) :
                         channel_csv[i].channel_code = selected_channel})
    /\ \A c \in ({"A", "B", NoneOption} \ CodesInWindow) :
          ChannelSelect(filtered_sql_df, c) = <<>>
    /\ selected_channel \notin CodesInWindow => filtered_channel_df = <<>>

\* C7 witness: the window holds code B before code A, both are offered in
\* sorted order, and B is the selected code.
C7_Witness ==
    /\ Len(filtered_sql_df) = 2
    /\ filtered_sql_df[1].channel_code = "B"
    /\ filtered_sql_df[2].channel_code = "A"
    /\ channel_options = << "A", "B" >>
    /\ selected_channel = "B"
    /\ Len(filtered_channel_df) = 1

\* The sum of a column over the rows at the positions idx, missing values
\* left out.
RECURSIVE SumAt(_, _, _)
SumAt(table, col, idx) ==
    IF idx = {} THEN 0
    ELSE LET i == CHOOSE x \in idx : TRUE
             v == table[i][col]
         IN  (IF v = NaN THEN 0 ELSE v) + SumAt(table, col, idx \ {i})

EventsIn(key) ==
    {i \in 1..Len(payload_csv) :
        /\ payload_csv[i].cycle_start_time # NaT
        /\ key <= payload_csv[i].cycle_start_time
        /\ payload_csv[i].cycle_start_time < key + FiveMinutes}

\* The events of a set that carry a payload reading.
WithReading(events) == {i \in events : payload_csv[i].avg_payload # NaN}

\* Every event with a timestamp lies in exactly one returned bucket, the one
\* starting at the five-minute floor of its timestamp; every returned bucket
\* starts on a five-minute boundary, holds an event, and occurs once.
BucketsAreFloors ==
    /\ \A i \in 1..Len(payload_csv) :
          payload_csv[i].cycle_start_time # NaT =>
              Cardinality({k \in 1..Len(agg_payload_5min) :
                  i \in EventsIn(agg_payload_5min[k].cycle_start_time_5min)}) = 1
    /\ \A k \in 1..Len(agg_payload_5min) :
          /\ agg_payload_5min[k].cycle_start_time_5min % FiveMinutes = 0
          /\ EventsIn(agg_payload_5min[k].cycle_start_time_5min) # {}
    /\ \A k, l \in 1..Len(agg_payload_5min) :
          agg_payload_5min[k].cycle_start_time_5min =
              agg_payload_5min[l].cycle_start_time_5min => k = l
    /\ \A i \in 1..Len(payload_csv) :
          /\ payload_csv[i].cycle_start_time = T(12, 4, 59) =>
                \E k \in 1..Len(agg_payload_5min) :
                    /\ agg_payload_5min[k].cycle_start_time_5min = T(12, 0, 0)
                    /\ i \in EventsIn(T(12, 0, 0))
          /\ payload_csv[i].cycle_start_time = T(12, 5, 0) =>
                \E k \in 1..Len(agg_payload_5min) :
                    /\ agg_payload_5min[k].cycle_start_time_5min = T(12, 5, 0)
                    /\ i \in EventsIn(T(12, 5, 0))

SelectedRows == ChannelSelect(filtered_sql_df, selected_channel)

\* The returned bucket that starts at instant t, if any.
BucketsAt(t) ==
    {k \in 1..Len(agg_payload_5min) : agg_payload_5min[k].cycle_start_time_5min = t}

\* C2: the bucket join returns one row per selected channel row, in order,
\* each with the payload columns of the bucket that starts at its
\* cycle_start_time, or with all four payload columns missing when there is
\* no such bucket.
C2_BucketAttachKeepsRows ==
    /\ Len(filtered_channel_df) = Len(SelectedRows)
    /\ \A i \in 1..Len(SelectedRows) :
          LET row == filtered_channel_df[i]
              at  == BucketsAt(SelectedRows[i].cycle_start_time)
          IN  /\ ChannelCols(row) = SelectedRows[i]
              /\ at # {} => \E k \in at : BucketCols(row) = agg_payload_5min[k]
              /\ at = {} =>
                    /\ row.cycle_start_time_5min = NaT
                    /\ row.sum_payload = NaN
                    /\ row.count_payload = NaN
                    /\ row.avg_payload.den = 0

\* C2 witness: two selected channel rows, one with a bucket and one without.
C2_Witness ==
    /\ Len(filtered_channel_df) = 2
    /\ filtered_channel_df[1].cycle_start_time_5min = NaT
    /\ filtered_channel_df[2].cycle_start_time_5min # NaT
    /\ Len(agg_payload_5min) = 2

\* The pairs (device reading, channel row) with equal timestamps: positions
\* in df_filtered and in a channel frame.
MatchingPairs(chan) ==
    {<<i, j>> \in (1..Len(df_filtered)) \X (1..Len(chan)) :
        df_filtered[i].device_date_time = chan[j].cycle_start_time}

\* C1 as stated: the merged table is the pairs (d, c) of a time-filtered
\* device reading and a row of the bucket-join result with d.timestamp =
\* c.cycle_start_time, each merged row carrying c's payload bucket columns.
C1_Original ==
    LET pairs == MatchingPairs(filtered_channel_df)
    IN  /\ Len(merged_df) = Cardinality(pairs)
        /\ \A k \in 1..Len(merged_df) : \E p \in pairs :
              merged_df[k] = DeviceCols(df_filtered[p[1]]) @@ filtered_channel_df[p[2]]
        /\ \A p \in pairs : \E k \in 1..Len(merged_df) :
              merged_df[k] = DeviceCols(df_filtered[p[1]]) @@ filtered_channel_df[p[2]]

\* C1 as amended: the merged table is the pairs (d, c) of a time-filtered
\* device reading and a selected channel row, as it is before the bucket
\* join, with d.timestamp = c.cycle_start_time; a merged row has the device
\* and the channel columns and no payload bucket column; a reading or a
\* channel row without an exact match is in no merged row.
C1_MergedIsExactInnerJoin ==
    LET pairs == MatchingPairs(SelectedRows)
    IN  /\ Len(merged_df) = Cardinality(pairs)
        /\ \A k \in 1..Len(merged_df) : \E p \in pairs :
              merged_df[k] = DeviceCols(df_filtered[p[1]]) @@ SelectedRows[p[2]]
        /\ \A p \in pairs : \E k \in 1..Len(merged_df) :
              merged_df[k] = DeviceCols(df_filtered[p[1]]) @@ SelectedRows[p[2]]
        /\ \A k \in 1..Len(merged_df) :
              DOMAIN merged_df[k] \cap DOMAIN NullBucket = {}

\* C1 witness: a merged row whose channel row has a bucket, beside a device
\* reading and a channel row that match nothing.
C1_Witness ==
    /\ Len(merged_df) = 1
    /\ Len(df_filtered) = 2
    /\ Len(filtered_channel_df) = 2
    /\ \E j \in 1..2 :
          /\ filtered_channel_df[j].cycle_start_time = merged_df[1].device_date_time
          /\ filtered_channel_df[j].cycle_start_time_5min # NaT
    /\ \E i \in 1..2 : \A j \in 1..2 :
          df_filtered[i].device_date_time # filtered_channel_df[j].cycle_start_time
    /\ \E j \in 1..2 : \A i \in 1..2 :
          df_filtered[i].device_date_time # filtered_channel_df[j].cycle_start_time

\* The pairs (merged row, bucket-join row) the final join keeps.
FinalPairs ==
    {<<i, j>> \in (1..Len(merged_df)) \X (1..Len(filtered_channel_df)) :
        /\ filtered_channel_df[j].cycle_start_time_5min # NaT
        /\ merged_df[i].device_date_time =
               filtered_channel_df[j].cycle_start_time_5min}

\* C3: the final merged table is the inner join of the merged table with the
\* bucket-join result on device timestamp = bucket start: every final row
\* has a bucket, starting at the row's device timestamp, and no bucket-join
\* row without a bucket is in the final merged table.
C3_FinalJoinOnBucketStart ==
    /\ Len(final_merged_df) = Cardinality(FinalPairs)
    /\ \A k \in 1..Len(final_merged_df) :
          /\ final_merged_df[k].cycle_start_time_5min # NaT
          /\ final_merged_df[k].cycle_start_time_5min =
                 final_merged_df[k].device_date_time
          /\ final_merged_df[k].sum_payload # NaN
          /\ final_merged_df[k].count_payload # NaN
          /\ \E p \in FinalPairs :
                final_merged_df[k] =
                    FinalRow(merged_df[p[1]], filtered_channel_df[p[2]])
    /\ \A p \in FinalPairs : \E k \in 1..Len(final_merged_df) :
          final_merged_df[k] = FinalRow(merged_df[p[1]], filtered_channel_df[p[2]])

\* C3 witness: a final merged row, while a merged row and a bucket-join row
\* without a bucket stay out of the final merged table.
C3_Witness ==
    /\ Len(final_merged_df) = 1
    /\ Len(merged_df) = 2
    /\ \E j \in 1..Len(filtered_channel_df) :
          filtered_channel_df[j].cycle_start_time_5min = NaT

\* C10: a bucket-join row with a bucket has bucket start = cycle_start_time;
\* the device timestamps of the final merged table are those of the merged
\* table at which a bucket starts; no final merged row has a
\* cycle_start_time off the five-minute boundaries.
C10_FinalKeepsBucketTimestamps ==
    /\ \A j \in 1..Len(filtered_channel_df) :
          filtered_channel_df[j].cycle_start_time_5min # NaT =>
              filtered_channel_df[j].cycle_start_time_5min =
                  filtered_channel_df[j].cycle_start_time
    /\ {final_merged_df[k].device_date_time : k \in 1..Len(final_merged_df)}
          = {merged_df[i].device_date_time :
                i \in {x \in 1..Len(merged_df) :
                          BucketsAt(merged_df[x].device_date_time) # {}}}
    /\ \A k \in 1..Len(final_merged_df) :
          /\ final_merged_df[k].cycle_start_time_x % FiveMinutes = 0
          /\ final_merged_df[k].cycle_start_time_y % FiveMinutes = 0

\* C10 witness: a channel row off the five-minute boundaries is in the
\* merged table, a bucket covers its instant, and the final merged table
\* holds only the aligned timestamp.
C10_Witness ==
    /\ \E i \in 1..Len(merged_df) :
          /\ merged_df[i].cycle_start_time % FiveMinutes # 0
          /\ BucketsAt(Floor5(merged_df[i].cycle_start_time)) # {}
    /\ final_merged_df # <<>>
    /\ Len(final_merged_df) < Len(merged_df)

\* The validation message of a window whose start is after its end.
InvalidRange == "InvalidRange"

\* C6: a run whose start instant is after its end instant reports
\* InvalidRange and leaves the filtered, merged and final merged tables, the
\* KPIs and the snapshot file as they were.
C6_InvalidRangeStopsRun ==
    [][start_datetime' > end_datetime' =>
          /\ InvalidRange \in messages'
          /\ UNCHANGED << df_filtered, filtered_sql_df, filtered_channel_df,
                          merged_df, final_merged_df, kpi, snapshot_csv >>]_vars

\* C9: no chart is drawn from a table without rows; a "no data" text is
\* shown in its place.
C9_EmptyTablesShowNoData ==
    \A chart \in AlwaysPlotted \cup {"cumulative_fuel"} \cup PayloadCharts :
        ChartTable(chart, df_filtered, merged_df, filtered_channel_df,
                   final_merged_df) = <<>>
            => /\ chart \notin plotted
               /\ messages # {}

====
